---- MODULE Spec2Model ----
(***************************************************************************)
(* Model of scribe's TokenIterator (src/buffer/token/token_iterator.rs):   *)
(* a lazy stream of Lexeme / Newline tokens built line by line from the    *)
(* scope-change events that the grammar engine reports for each line.      *)
(***************************************************************************)
EXTENDS Integers, Sequences, FiniteSets, TLC

VARIABLES data, ordered, lines, scopes, parser, line_tokens,
          ret, out, eager, parsed, ended, endPulls

vars == <<data, ordered, lines, scopes, parser, line_tokens,
          ret, out, eager, parsed, ended, endPulls>>

(* ------------------------------- bounds -------------------------------- *)
MaxText == 3
MaxEvents == 2
MaxDepth == 2
MaxEndPulls == 2
MaxLiveText == 1

(* ------------------------------ alphabet ------------------------------- *)
NL == "\n"
Chars == {"a", "b"}
ScopeNames == {"s1", "s2"}
TextsUpTo(m) == UNION {[1..n -> Chars \cup {NL}] : n \in 0..m}
Texts == TextsUpTo(MaxText)
LiveTexts == TextsUpTo(MaxLiveText)

(* ------------------------------- tokens -------------------------------- *)
NoScope == "None"
Newline == [type |-> "Newline"]
Lexeme(value, scope, line, offset) ==
    [type |-> "Lexeme", value |-> value, scope |-> scope,
     line |-> line, offset |-> offset]
NoToken == [type |-> "None"]
IsLexeme(t) == t.type = "Lexeme"
IsNewline(t) == t.type = "Newline"

(* &line[from..to] : the bytes from (0-based, inclusive) to (exclusive) *)
Slice(line, from, to) == SubSeq(line, from + 1, to)

(* ---------------------------- scope stack ------------------------------ *)
PushOp(s) == [op |-> "Push", scope |-> s]
PopOp == [op |-> "Pop"]
ScopeOps == {PushOp(s) : s \in ScopeNames} \cup {PopOp}

(* ScopeStack::apply : push one scope, or pop one (popping nothing when empty) *)
Apply(stack, change) ==
    IF change.op = "Push" THEN Append(stack, change.scope)
    ELSE IF Len(stack) > 0 THEN SubSeq(stack, 1, Len(stack) - 1)
    ELSE stack

(* self.scopes.as_slice().last().map(|s| s.clone()) *)
Deepest(stack) == IF Len(stack) = 0 THEN NoScope ELSE stack[Len(stack)]

(* ----------------------------- line source ----------------------------- *)
(* LineIterator: the state is the byte index where the next line starts,  *)
(* the next line number and the done flag.                                 *)
LineIteratorNew == [pos |-> 0, number |-> 0, done |-> FALSE]

NewlinesFrom(text, pos) == {j \in (pos + 1)..Len(text) : text[j] = NL}

FirstNewline(text, pos) ==
    CHOOSE j \in NewlinesFrom(text, pos) :
        \A k \in NewlinesFrom(text, pos) : j <= k

(* LineIterator::next : Some((line_number, line)) with the line's "\n"     *)
(* kept, a final line (possibly empty) after the last "\n", then None.     *)
LinesNext(text, it) ==
    IF it.done THEN [some |-> FALSE, it |-> it]
    ELSE IF NewlinesFrom(text, it.pos) # {}
    THEN LET j == FirstNewline(text, it.pos) IN
         [some |-> TRUE, line_number |-> it.number,
          line |-> Slice(text, it.pos, j),
          it |-> [pos |-> j, number |-> it.number + 1, done |-> FALSE]]
    ELSE [some |-> TRUE, line_number |-> it.number,
          line |-> Slice(text, it.pos, Len(text)),
          it |-> [pos |-> Len(text), number |-> it.number + 1, done |-> TRUE]]

(* ---------------------------- grammar engine --------------------------- *)
Events(n) == [offset : 0..n, change : ScopeOps]

Ascending(evs) ==
    \A i \in 1..(Len(evs) - 1) : evs[i].offset <= evs[i + 1].offset

(* what ParseState::parse_line may return for a line of n bytes: at most  *)
(* m events, in ascending offset order                                     *)
AnyEventSeqs(n, m) == UNION {[1..k -> Events(n)] : k \in 0..m}
EventSeqs(n, m) == {evs \in AnyEventSeqs(n, m) : Ascending(evs)}

RECURSIVE ApplyAll(_, _)
ApplyAll(stack, evs) ==
    IF Len(evs) = 0 THEN stack
    ELSE ApplyAll(Apply(stack, Head(evs).change), Tail(evs))

(* ------------------------- TokenIterator state ------------------------- *)
NoTokens == [some |-> FALSE, toks |-> <<>>]
SomeTokens(toks) == [some |-> TRUE, toks |-> toks]

(* ParseState::new : the lines fed to parse_line so far and the number of *)
(* events it has reported for them                                         *)
ParseStateNew == [fed |-> <<>>, reported |-> 0]

(* TokenIterator::new *)
New ==
    [scopes |-> <<>>, parser |-> ParseStateNew, line_tokens |-> NoTokens,
     lines |-> LineIteratorNew, eager |-> <<>>, parsed |-> <<>>]

(* faulty variant: the trailing "\n" counted as content *)
line_length_whole(line) == Len(line)

(* line_length : the byte length without a trailing "\n" *)
line_length(line) ==
    IF Len(line) > 0 /\ line[Len(line)] = NL THEN Len(line) - 1
    ELSE Len(line)

(* faulty variant: a Newline pushed for line 0 as well *)
LeadingNewlineAlways(line_number) == <<Newline>>

(* if line_number > 0 { tokens.push(Token::Newline) } *)
LeadingNewline(line_number) ==
    IF line_number > 0 THEN <<Newline>> ELSE <<>>

(* faulty variant: the cursor is not moved to change_offset after a lexeme *)
EventStepNoAdvance(line, line_number, acc, ev) ==
    LET split == ev.offset > acc.offset
        toks == IF split
                THEN Append(acc.tokens,
                            Lexeme(Slice(line, acc.offset, ev.offset),
                                   Deepest(acc.scopes),
                                   line_number, acc.offset))
                ELSE acc.tokens
    IN [tokens |-> toks,
        offset |-> acc.offset,
        scopes |-> Apply(acc.scopes, ev.change)]

(* faulty variant: the scope change is applied before the lexeme captures its scope *)
EventStepApplyFirst(line, line_number, acc, ev) ==
    LET split == ev.offset > acc.offset
        toks == IF split
                THEN Append(acc.tokens,
                            Lexeme(Slice(line, acc.offset, ev.offset),
                                   Deepest(Apply(acc.scopes, ev.change)),
                                   line_number, acc.offset))
                ELSE acc.tokens
    IN [tokens |-> toks,
        offset |-> IF split THEN ev.offset ELSE acc.offset,
        scopes |-> Apply(acc.scopes, ev.change)]

(* faulty variant: the scope change is applied only when a lexeme was pushed *)
EventStepApplyOnSplit(line, line_number, acc, ev) ==
    LET split == ev.offset > acc.offset
        toks == IF split
                THEN Append(acc.tokens,
                            Lexeme(Slice(line, acc.offset, ev.offset),
                                   Deepest(acc.scopes),
                                   line_number, acc.offset))
                ELSE acc.tokens
    IN [tokens |-> toks,
        offset |-> IF split THEN ev.offset ELSE acc.offset,
        scopes |-> IF split THEN Apply(acc.scopes, ev.change)
                   ELSE acc.scopes]

(* faulty variant: an event at the cursor's own offset pushes a lexeme too *)
EventStepSplitEq(line, line_number, acc, ev) ==
    LET split == ev.offset >= acc.offset
        toks == IF split
                THEN Append(acc.tokens,
                            Lexeme(Slice(line, acc.offset, ev.offset),
                                   Deepest(acc.scopes),
                                   line_number, acc.offset))
                ELSE acc.tokens
    IN [tokens |-> toks,
        offset |-> IF split THEN ev.offset ELSE acc.offset,
        scopes |-> Apply(acc.scopes, ev.change)]

(* faulty variant: an event past the content of the line is not applied *)
EventStepSkipPastContent(line, line_number, acc, ev) ==
    LET split == ev.offset > acc.offset
        toks == IF split
                THEN Append(acc.tokens,
                            Lexeme(Slice(line, acc.offset, ev.offset),
                                   Deepest(acc.scopes),
                                   line_number, acc.offset))
                ELSE acc.tokens
    IN [tokens |-> toks,
        offset |-> IF split THEN ev.offset ELSE acc.offset,
        scopes |-> IF ev.offset < line_length(line)
                   THEN Apply(acc.scopes, ev.change)
                   ELSE acc.scopes]

(* faulty variant: any event away from the cursor pushes a lexeme *)
EventStepSplitNe(line, line_number, acc, ev) ==
    LET split == ev.offset # acc.offset
        toks == IF split
                THEN Append(acc.tokens,
                            Lexeme(Slice(line, acc.offset, ev.offset),
                                   Deepest(acc.scopes),
                                   line_number, acc.offset))
                ELSE acc.tokens
    IN [tokens |-> toks,
        offset |-> IF split THEN ev.offset ELSE acc.offset,
        scopes |-> Apply(acc.scopes, ev.change)]

(* the body of the loop over the events of one line; acc holds the local  *)
(* tokens and offset and the iterator's scope stack                        *)
EventStep(line, line_number, acc, ev) ==
    LET split == ev.offset > acc.offset
        toks == IF split
                THEN Append(acc.tokens,
                            Lexeme(Slice(line, acc.offset, ev.offset),
                                   Deepest(acc.scopes),
                                   line_number, acc.offset))
                ELSE acc.tokens
    IN [tokens |-> toks,
        offset |-> IF split THEN ev.offset ELSE acc.offset,
        scopes |-> Apply(acc.scopes, ev.change)]

RECURSIVE EventLoop(_, _, _, _)
EventLoop(line, line_number, acc, evs) ==
    IF Len(evs) = 0 THEN acc
    ELSE EventLoop(line, line_number,
                   EventStep(line, line_number, acc, Head(evs)), Tail(evs))

(* faulty variant: the remainder is pushed even when nothing is left *)
RemainderAlways(line, line_number, acc) ==
    IF acc.offset <= line_length(line)
    THEN Append(acc.tokens,
                Lexeme(Slice(line, acc.offset, line_length(line)),
                       Deepest(acc.scopes), line_number, acc.offset))
    ELSE acc.tokens

(* faulty variant: the Newline of a line is pushed after its lexemes *)
RemainderTrailingNewline(line, line_number, acc) ==
    (IF acc.offset < line_length(line)
     THEN Append(acc.tokens,
                 Lexeme(Slice(line, acc.offset, line_length(line)),
                        Deepest(acc.scopes), line_number, acc.offset))
     ELSE acc.tokens)
    \o (IF Len(line) > 0 /\ line[Len(line)] = NL THEN <<Newline>> ELSE <<>>)

(* the rest of the line after the last event *)
Remainder(line, line_number, acc) ==
    IF acc.offset < line_length(line)
    THEN Append(acc.tokens,
                Lexeme(Slice(line, acc.offset, line_length(line)),
                       Deepest(acc.scopes), line_number, acc.offset))
    ELSE acc.tokens

(* faulty variant: the scope stack starts empty for every line *)
parse_next_line_reset(st, evs) ==
    LET nx == LinesNext(data, st.lines) IN
    IF nx.some
    THEN LET acc == EventLoop(nx.line, nx.line_number,
                              [tokens |-> LeadingNewline(nx.line_number),
                               offset |-> 0, scopes |-> <<>>], evs)
             tokens == Remainder(nx.line, nx.line_number, acc)
         IN [scopes |-> acc.scopes,
             parser |-> [fed |-> Append(st.parser.fed, nx.line_number),
                         reported |-> st.parser.reported + Len(evs)],
             line_tokens |-> SomeTokens(tokens),
             lines |-> nx.it,
             eager |-> st.eager \o tokens,
             parsed |-> Append(st.parsed,
                               [line_number |-> nx.line_number,
                                line |-> nx.line, events |-> evs,
                                before |-> st.scopes, after |-> acc.scopes,
                                tokens |-> tokens])]
    ELSE [st EXCEPT !.line_tokens = NoTokens, !.lines = nx.it]

(* TokenIterator::parse_next_line, the grammar engine answering evs *)
parse_next_line(st, evs) ==
    LET nx == LinesNext(data, st.lines) IN
    IF nx.some
    THEN LET acc == EventLoop(nx.line, nx.line_number,
                              [tokens |-> LeadingNewline(nx.line_number),
                               offset |-> 0, scopes |-> st.scopes], evs)
             tokens == Remainder(nx.line, nx.line_number, acc)
         IN [scopes |-> acc.scopes,
             parser |-> [fed |-> Append(st.parser.fed, nx.line_number),
                         reported |-> st.parser.reported + Len(evs)],
             line_tokens |-> SomeTokens(tokens),
             lines |-> nx.it,
             eager |-> st.eager \o tokens,
             parsed |-> Append(st.parsed,
                               [line_number |-> nx.line_number,
                                line |-> nx.line, events |-> evs,
                                before |-> st.scopes, after |-> acc.scopes,
                                tokens |-> tokens])]
    ELSE [st EXCEPT !.line_tokens = NoTokens, !.lines = nx.it]

(* tokens.next() on the buffered IntoIter *)
Pop(st) ==
    IF st.line_tokens.some /\ Len(st.line_tokens.toks) > 0
    THEN [tok |-> Head(st.line_tokens.toks),
          st |-> [st EXCEPT !.line_tokens.toks = Tail(@)]]
    ELSE [tok |-> NoToken, st |-> st]

(* faulty variant: no token is fetched from the buffer just rebuilt *)
next_token_no_fetch(st, evs) ==
    IF Pop(st).tok # NoToken THEN Pop(st)
    ELSE [tok |-> NoToken, st |-> parse_next_line(st, evs)]

(* faulty variant: the next line is parsed on every call *)
next_token_refill(st, evs) == Pop(parse_next_line(st, evs))

(* TokenIterator::next_token, the grammar engine answering evs if asked *)
next_token(st, evs) ==
    IF Pop(st).tok # NoToken THEN Pop(st)
    ELSE Pop(parse_next_line(st, evs))

(* faulty variant: no second attempt after an empty line *)
next_no_retry(first, retried) == first

(* Iterator::next : first is what the first next_token() gave, retried     *)
(* what parse_next_line() followed by next_token() gives after it          *)
next(first, retried) ==
    IF first.tok # NoToken THEN first ELSE retried

(* the event sequences the grammar engine may answer if parse_next_line is *)
(* called in state st: nothing to choose when the line source is          *)
(* exhausted; MaxEvents caps the events reported over the whole document   *)
(* and MaxDepth the depth of the scope stack; the offsets ascend when the  *)
(* grammar engine keeps its contract (ordered)                             *)
Answers(st) ==
    LET nx == LinesNext(data, st.lines)
        budget == MaxEvents - st.parser.reported
    IN IF nx.some
       THEN {evs \in (IF ordered THEN EventSeqs(Len(nx.line), budget)
                      ELSE AnyEventSeqs(Len(nx.line), budget)) :
                 Len(ApplyAll(st.scopes, evs)) <= MaxDepth}
       ELSE {<<>>}

(* the same for next_token, which parses only when the buffer is drained *)
TokenAnswers(st) ==
    IF Pop(st).tok # NoToken THEN {<<>>} ELSE Answers(st)

State ==
    [scopes |-> scopes, parser |-> parser, line_tokens |-> line_tokens,
     lines |-> lines, eager |-> eager, parsed |-> <<>>]

(* ------------------------------ behaviour ------------------------------ *)
Constructed ==
    /\ lines = New.lines
    /\ scopes = New.scopes
    /\ parser = New.parser
    /\ line_tokens = New.line_tokens
    /\ eager = New.eager
    /\ parsed = New.parsed
    /\ ret = NoToken
    /\ out = <<>>
    /\ ended = FALSE
    /\ endPulls = 0

Init == data \in Texts /\ ordered = TRUE /\ Constructed

(* the same program on shorter texts, for the checks of termination *)
InitLive == data \in LiveTexts /\ ordered = TRUE /\ Constructed

(* the same program with a grammar engine that reports the events of a    *)
(* line in any order of offsets                                            *)
InitAny == data \in Texts /\ ordered = FALSE /\ Constructed

Returned(r) ==
    /\ scopes' = r.st.scopes
    /\ parser' = r.st.parser
    /\ line_tokens' = r.st.line_tokens
    /\ lines' = r.st.lines
    /\ eager' = r.st.eager
    /\ parsed' = r.st.parsed
    /\ ret' = r.tok
    /\ out' = IF r.tok = NoToken THEN out ELSE Append(out, r.tok)
    /\ ended' = (ended \/ r.tok = NoToken)
    /\ endPulls' = IF ended THEN endPulls + 1 ELSE endPulls
    /\ UNCHANGED <<data, ordered>>

(* one pull of the stream: Iterator::next with every call it makes *)
Pull ==
    /\ endPulls < MaxEndPulls
    /\ \E s0 \in {State} :
       \E e1 \in TokenAnswers(s0) :
       \E first \in {next_token(s0, e1)} :
       \E e2 \in (IF first.tok # NoToken THEN {<<>>} ELSE Answers(first.st)) :
       \E second \in {parse_next_line(first.st, e2)} :
       \E e3 \in (IF first.tok # NoToken THEN {<<>>}
                  ELSE TokenAnswers(second)) :
       \E r \in {next(first, next_token(second, e3))} :
           Returned(r)

Next == Pull

Spec == Init /\ [][Next]_vars

SpecAny == InitAny /\ [][Next]_vars

(* the caller keeps pulling *)
FairSpec == InitLive /\ [][Next]_vars /\ WF_vars(Pull)

(* ------------------------- helpers for properties ---------------------- *)
Lexemes(toks) == SelectSeq(toks, IsLexeme)
NewlineCount(toks) == Len(SelectSeq(toks, IsNewline))
EndOf(t) == t.offset + Len(t.value)
Contains(value, c) == \E i \in 1..Len(value) : value[i] = c
EndsWithNewline(line) == Len(line) > 0 /\ line[Len(line)] = NL

(* the text the stream stands for: lexeme values, "\n" for each Newline *)
RECURSIVE Rebuild(_)
Rebuild(toks) ==
    IF Len(toks) = 0 THEN <<>>
    ELSE (IF IsNewline(Head(toks)) THEN <<NL>> ELSE Head(toks).value)
         \o Rebuild(Tail(toks))

(* C1: once the stream is exhausted, the lexeme values concatenated, with *)
(* one "\n" for each Newline token, give the original text.                *)
C1_RoundTrip == ended => Rebuild(out) = data

(* C2: the tokens built for a line hold exactly one Newline, as their      *)
(* first element, when the line number is above 0 and none for line 0; a   *)
(* document of N lines gives N-1 Newline tokens over the whole stream.     *)
C2_NewlinePerLine ==
    /\ \A i \in DOMAIN parsed :
         LET p == parsed[i] IN
         /\ NewlineCount(p.tokens) = (IF p.line_number > 0 THEN 1 ELSE 0)
         /\ p.line_number > 0 => IsNewline(p.tokens[1])
    /\ (out # <<>> /\ IsNewline(out[1])) => Len(parser.fed) > 1
    /\ ended => NewlineCount(out) = lines.number - 1

C2_Witness ==
    /\ ended
    /\ lines.number = 3
    /\ NewlineCount(out) = 2
    /\ Lexemes(out) = <<>>

(* C3: no lexeme of a line ending in "\n" reaches past the content length *)
(* or holds a "\n".                                                        *)
C3_NoTerminator ==
    \A i \in DOMAIN parsed :
        LET p == parsed[i] IN
        EndsWithNewline(p.line) =>
            \A k \in DOMAIN p.tokens :
                IsLexeme(p.tokens[k]) =>
                    /\ EndOf(p.tokens[k]) <= Len(p.line) - 1
                    /\ ~Contains(p.tokens[k].value, NL)

(* C4: the lexemes of a line tile its content: the first starts at 0, each *)
(* next one starts where the previous ended, the last ends at the content  *)
(* length.                                                                 *)
C4_Tiling ==
    \A i \in DOMAIN parsed :
        LET p == parsed[i]
            lx == Lexemes(p.tokens)
            content == IF EndsWithNewline(p.line) THEN Len(p.line) - 1
                       ELSE Len(p.line)
        IN /\ Len(lx) = 0 => content = 0
           /\ Len(lx) > 0 => lx[1].offset = 0 /\ EndOf(lx[Len(lx)]) = content
           /\ \A k \in 1..(Len(lx) - 1) : lx[k + 1].offset = EndOf(lx[k])

(* C5: successive lexemes of the stream have non-decreasing (line, offset) *)
(* positions, and strictly increasing offsets within one line.             *)
C5_PositionsIncrease ==
    LET lx == Lexemes(out) IN
    \A k \in 1..(Len(lx) - 1) :
        \/ lx[k].line < lx[k + 1].line
        \/ lx[k].line = lx[k + 1].line /\ lx[k].offset < lx[k + 1].offset

C5_Witness ==
    LET lx == Lexemes(out) IN
    /\ \E k \in 1..(Len(lx) - 1) : lx[k].line = lx[k + 1].line
    /\ \E k \in 1..(Len(lx) - 1) : lx[k].line < lx[k + 1].line

(* C6: a lexeme's scope is the deepest scope of the stack with exactly the *)
(* events at offsets up to the lexeme's start applied, None when empty.    *)
C6_ScopeAtStart ==
    \A i \in DOMAIN parsed :
        LET p == parsed[i] IN
        \A k \in DOMAIN p.tokens :
            LET t == p.tokens[k] IN
            IsLexeme(t) =>
                t.scope = Deepest(ApplyAll(p.before,
                              SelectSeq(p.events,
                                        LAMBDA e : e.offset <= t.offset)))

C6_Witness ==
    \E i \in DOMAIN parsed :
        LET p == parsed[i]
            lx == Lexemes(p.tokens)
        IN /\ Len(p.events) = 2
           /\ p.events[1].offset < p.events[2].offset
           /\ Len(lx) = 2
           /\ lx[1].scope = NoScope
           /\ lx[2].scope # NoScope
           /\ lx[2].scope # Deepest(p.after)

(* C7 as stated: a line without events gives exactly one lexeme, at offset *)
(* 0, spanning the content.                                                *)
C7_OneLexeme ==
    \A i \in DOMAIN parsed :
        LET p == parsed[i]
            lx == Lexemes(p.tokens)
        IN p.events = <<>> =>
               /\ Len(lx) = 1
               /\ lx[1].offset = 0
               /\ lx[1].value = SubSeq(p.line, 1, Len(p.line) -
                                   (IF EndsWithNewline(p.line) THEN 1 ELSE 0))

(* C7 amended: a line without events gives exactly one lexeme, at offset 0 *)
(* and spanning the content, when the content is not empty, and no lexeme  *)
(* when it is empty.                                                       *)
C7_OneLexemeIfContent ==
    \A i \in DOMAIN parsed :
        LET p == parsed[i]
            lx == Lexemes(p.tokens)
            content == Len(p.line) - (IF EndsWithNewline(p.line) THEN 1 ELSE 0)
        IN p.events = <<>> =>
               IF content > 0
               THEN /\ Len(lx) = 1
                    /\ lx[1].offset = 0
                    /\ lx[1].value = SubSeq(p.line, 1, content)
               ELSE Len(lx) = 0

C7_Witness ==
    \E i \in DOMAIN parsed :
        LET p == parsed[i] IN
        /\ p.events = <<>>
        /\ EndsWithNewline(p.line)
        /\ Len(p.line) = 3
        /\ Len(Lexemes(p.tokens)) = 1

(* C8: when events share an offset, no lexeme is empty and the stack after *)
(* the line is the stack before it with all the events applied in order.   *)
C8_SameOffset ==
    \A i \in DOMAIN parsed :
        LET p == parsed[i] IN
        (\E k \in 1..(Len(p.events) - 1) :
             p.events[k].offset = p.events[k + 1].offset) =>
            /\ p.after = ApplyAll(p.before, p.events)
            /\ \A k \in DOMAIN p.tokens :
                   IsLexeme(p.tokens[k]) => Len(p.tokens[k].value) > 0

C8_Witness ==
    \E i \in DOMAIN parsed :
        LET p == parsed[i] IN
        /\ Len(p.events) = 2
        /\ p.events[1].offset = p.events[2].offset
        /\ p.events[1].offset > 0
        /\ p.events[1].offset < Len(p.line)
        /\ p.events[1].change.op = "Push"
        /\ p.events[2].change.op = "Push"
        /\ Len(Lexemes(p.tokens)) = 2

(* C9: after a pull has returned end-of-sequence, every pull returns       *)
(* end-of-sequence.                                                        *)
C9_StaysExhausted == ended => ret = NoToken

C9_Witness == endPulls >= 2 /\ Len(out) >= 2

(* C10: pulling reaches end-of-sequence, and only with the line source     *)
(* exhausted, no token left in the buffer and as many tokens returned as    *)
(* were built for all the lines.                                           *)
C10_Terminates ==
    /\ <>ended
    /\ [](ended => /\ lines.done
                   /\ Pop(State).tok = NoToken
                   /\ Len(parser.fed) = lines.number
                   /\ Len(out) = Len(eager))

C10_Witness ==
    /\ ended
    /\ endPulls = 0
    /\ lines.number = 2
    /\ Len(out) >= 1
    /\ IsNewline(out[Len(out)])

(* C11: for the empty text the stream returns no token at all, and its     *)
(* first pull already returns end-of-sequence, whatever events the grammar *)
(* engine reports for the empty line.                                      *)
C11_EmptyInput ==
    data = <<>> =>
        /\ out = <<>>
        /\ ret = NoToken
        /\ Len(parser.fed) > 0 => ended

C11_Witness ==
    /\ data = <<>>
    /\ ended
    /\ parser.fed = <<0>>
    /\ parser.reported = 2

EventsAtEnds(p) ==
    \A k \in DOMAIN p.events : p.events[k].offset \in {0, Len(p.line)}

WholeTextOnly ==
    /\ Len(out) = 1
    /\ IsLexeme(out[1])
    /\ out[1].value = data
    /\ out[1].line = 0
    /\ out[1].offset = 0

(* C12 as stated: a text without "\n" whose events all fall at offset 0 or *)
(* at its end gives exactly one token, the lexeme at (0,0) holding the     *)
(* whole text, and then end-of-sequence.                                   *)
C12_OneLexeme ==
    ~Contains(data, NL) =>
        /\ \A i \in DOMAIN parsed :
               EventsAtEnds(parsed[i]) => WholeTextOnly /\ ret = out[1]
        /\ (Len(out) >= 1 /\ out[1].value = data) =>
               /\ WholeTextOnly
               /\ parsed = <<>> => ended

(* C12 amended: the same for a text that is not empty.                     *)
C12_OneLexemeIfText ==
    (~Contains(data, NL) /\ Len(data) > 0) =>
        /\ \A i \in DOMAIN parsed :
               EventsAtEnds(parsed[i]) => WholeTextOnly /\ ret = out[1]
        /\ (Len(out) >= 1 /\ out[1].value = data) =>
               /\ WholeTextOnly
               /\ parsed = <<>> => ended

C12_Witness ==
    /\ ~Contains(data, NL)
    /\ Len(data) = 3
    /\ parser.reported = 2
    /\ Len(out) = 1
    /\ ended

NumLines(text) == Cardinality({j \in 1..Len(text) : text[j] = NL}) + 1

(* C13: the tokens returned so far, followed by those still buffered, are  *)
(* the token lists built for the lines parsed so far, in order; the lines  *)
(* are parsed in order without a gap, and at end-of-sequence every line    *)
(* has been parsed and every token built has been returned.                *)
C13_LazyEqualsEager ==
    /\ eager = out \o line_tokens.toks
    /\ \A i \in DOMAIN parser.fed : parser.fed[i] = i - 1
    /\ ended => out = eager /\ Len(parser.fed) = NumLines(data)

C13_Witness ==
    /\ ended
    /\ Len(data) = 3
    /\ data[1] = NL
    /\ IsNewline(out[1])
    /\ Len(out) >= 3

(* C14: a pull that finds a token in the buffer returns the head of the    *)
(* buffer and leaves the line source, the grammar engine and the scope     *)
(* stack alone; only a pull that finds no token there advances them.       *)
C14_BufferedPull ==
    [][/\ Pop(State).tok # NoToken =>
            /\ ret' = Head(line_tokens.toks)
            /\ line_tokens' = SomeTokens(Tail(line_tokens.toks))
            /\ UNCHANGED <<lines, parser, scopes>>
       /\ (lines' # lines \/ parser' # parser) =>
            Pop(State).tok = NoToken]_vars

C14_Witness ==
    /\ parsed = <<>>
    /\ IsLexeme(ret)
    /\ ret.line = 1
    /\ Len(line_tokens.toks) >= 1
    /\ scopes # <<>>

(* C15: the buffer holds tokens of the line taken last from the line       *)
(* source only: its lexemes carry that line's number, and a Newline can    *)
(* only be its first element.                                              *)
C15_OneLineBuffered ==
    LET b == line_tokens.toks IN
    /\ b # <<>> => line_tokens.some /\ lines.number >= 1
    /\ \A k \in DOMAIN b :
           /\ IsLexeme(b[k]) => b[k].line = lines.number - 1
           /\ IsNewline(b[k]) => k = 1
    /\ \A i \in DOMAIN parsed :
           \A k \in DOMAIN parsed[i].tokens :
               LET t == parsed[i].tokens[k] IN
               /\ IsLexeme(t) => t.line = parsed[i].line_number
               /\ IsNewline(t) => k = 1

C15_Witness ==
    /\ Len(line_tokens.toks) >= 2
    /\ lines.number = 2
    /\ IsNewline(ret)

(* C16: parse_line is fed the lines 0, 1, 2, ... in this order, each at    *)
(* most once, and every line of the document exactly once by the time a    *)
(* pull returns end-of-sequence; pulls after that feed it nothing.         *)
C16_ParseOrder ==
    /\ \A i \in DOMAIN parser.fed : parser.fed[i] = i - 1
    /\ Len(parser.fed) <= NumLines(data)
    /\ ended => Len(parser.fed) = NumLines(data)

C16_Witness ==
    /\ ended
    /\ endPulls >= 1
    /\ parser.fed = <<0, 1, 2>>

ContentLength(line) == Len(line) - (IF EndsWithNewline(line) THEN 1 ELSE 0)

MaxOffset(evs) ==
    IF evs = <<>> THEN 0
    ELSE CHOOSE m \in {evs[k].offset : k \in DOMAIN evs} :
             \A k \in DOMAIN evs : evs[k].offset <= m

(* C18: the stack after a line has every event of the line applied, those  *)
(* at or past the content length included, and the lexeme for the rest of  *)
(* the line after the last event carries the deepest scope of that stack.  *)
C18_AllEventsApplied ==
    \A i \in DOMAIN parsed :
        LET p == parsed[i]
            lx == Lexemes(p.tokens)
        IN /\ p.after = ApplyAll(p.before, p.events)
           /\ MaxOffset(p.events) < ContentLength(p.line) =>
                  /\ Len(lx) > 0
                  /\ lx[Len(lx)].offset = MaxOffset(p.events)
                  /\ lx[Len(lx)].scope = Deepest(p.after)

C18_Witness ==
    \E i \in DOMAIN parsed :
        LET p == parsed[i] IN
        /\ EndsWithNewline(p.line)
        /\ Len(p.line) = 3
        /\ Len(p.events) = 2
        /\ p.events[1].offset = ContentLength(p.line)
        /\ p.events[2].offset = Len(p.line)
        /\ p.events[1].change.op = "Push"
        /\ p.events[2].change.op = "Push"
        /\ Len(p.after) = Len(p.before) + 2

(* C19: the line number of every lexeme returned is the number of Newline  *)
(* tokens returned before it.                                              *)
C19_LineIsNewlineCount ==
    \A k \in DOMAIN out :
        IsLexeme(out[k]) =>
            out[k].line = NewlineCount(SubSeq(out, 1, k - 1))

C19_Witness ==
    /\ \E k \in DOMAIN out : IsLexeme(out[k]) /\ out[k].line = 1
    /\ \E k \in DOMAIN out :
           IsLexeme(out[k]) /\ out[k].line = 0 /\ ~Contains(out[k].value, NL)

RECURSIVE CursorAfter(_, _)
CursorAfter(c, evs) ==
    IF Len(evs) = 0 THEN c
    ELSE CursorAfter(IF Head(evs).offset > c THEN Head(evs).offset ELSE c,
                     Tail(evs))

(* C20: for events in any order of offsets, the lexemes of a line are not  *)
(* empty, follow each other at increasing offsets, end exactly where an    *)
(* event moved the cursor forward (or at the content length, for the rest  *)
(* of the line), and every event is applied to the scope stack.            *)
C20_OutOfOrder ==
    \A i \in DOMAIN parsed :
        LET p == parsed[i]
            lx == Lexemes(p.tokens)
            moved == {CursorAfter(0, SubSeq(p.events, 1, k)) :
                          k \in DOMAIN p.events} \ {0}
            final == CursorAfter(0, p.events)
            rest == IF final < ContentLength(p.line)
                    THEN {ContentLength(p.line)} ELSE {}
        IN /\ \A k \in DOMAIN lx : Len(lx[k].value) > 0
           /\ \A k \in 1..(Len(lx) - 1) :
                  /\ lx[k].offset < lx[k + 1].offset
                  /\ lx[k + 1].offset = EndOf(lx[k])
           /\ {EndOf(lx[k]) : k \in DOMAIN lx} = moved \cup rest
           /\ p.after = ApplyAll(p.before, p.events)

C20_Witness ==
    \E i \in DOMAIN parsed :
        LET p == parsed[i] IN
        /\ Len(p.events) = 2
        /\ p.events[1].offset = 2
        /\ p.events[2].offset = 1
        /\ p.events[1].change.op = "Push"
        /\ p.events[2].change.op = "Push"
        /\ Len(p.line) = 3
        /\ Len(Lexemes(p.tokens)) = 2
        /\ p.after = p.before \o <<p.events[1].change.scope,
                                   p.events[2].change.scope>>

====
